---------------------------- MODULE Spec2Model ----------------------------
(***************************************************************************)
(* A model of qiime/otu_significance.py: the metadata grouper, the slice   *)
(* generators, the test runners, the result formatters and sort_by_pval.   *)
(*                                                                         *)
(* Conventions.                                                            *)
(*  - A Python dict is a sequence of <<key, value>> pairs with distinct    *)
(*    keys, in the order the dict iterates.  The library is Python 2       *)
(*    (dict comprehensions, print statements in the scripts): a dict's     *)
(*    iteration order is arbitrary and depends on the insertion history,   *)
(*    so every dict that is BUILT gets a nondeterministic order, while     *)
(*    iterating one unmodified dict twice gives the same order.            *)
(*  - A Python str is a sequence of tokens; TAB is the tab character, a    *)
(*    Val token is the text str() gives a value, a Txt token is a piece    *)
(*    of literal text without a tab.  '\t'.join and split('\t') are        *)
(*    computed on these sequences.                                         *)
(*  - The statistical functions (pycogent_backports.test) are outside the  *)
(*    modelled file: their results are uninterpreted records of the call.  *)
(*  - script names the driver that is running, pc the function it called  *)
(*    last, raised the exception that function raised ("" when none).      *)
(***************************************************************************)
EXTENDS Integers, Sequences, FiniteSets, TLC

\* ------------------------------------------------------------------ bounds
MaxRows == 2
MaxPaired == 2
MaxLines == 3

\* the sample ids of the mapping file, and the observation ids of the table
Samples == {"s1", "s2", "s3"}
ObservationNames == <<"o1", "o2", "o3", "o4">>
\* the column orders of the table: the mapping file's samples in two orders,
\* and a table that lacks the sample s3
SampleIdLists == {<<"s1", "s2", "s3">>, <<"s3", "s2", "s1">>, <<"s1", "s2">>}
\* values of the grouping field in the mapping file; "" is an empty cell
CategoryValues == {"", "A", "B"}
\* values of the gradient field in the mapping file, as the strings they are
GradientText == [s \in Samples |-> CASE s = "s1" -> "1" [] s = "s2" -> "2" [] OTHER -> "3"]

CatField == "Treatment"
GradField == "Gradient"

VARIABLES script, s_before, s_after, ind, pc, raised, bt, pmf, sam_cats, cat_sam_groups, cat_sam_indices,
          data_generator, test, result, lines, calls

vars == <<script, s_before, s_after, ind, pc, raised, bt, pmf, sam_cats, cat_sam_groups, cat_sam_indices,
          data_generator, test, result, lines, calls>>

\* ----------------------------------------------------------- small helpers
Range(s) == {s[i] : i \in DOMAIN s}

Perms(n) == {p \in [1..n -> 1..n] : \A i, j \in 1..n : p[i] = p[j] => i = j}

\* every iteration order a dict built from these items can have
DictOrders(items) ==
    {[i \in 1..Len(items) |-> items[p[i]]] : p \in Perms(Len(items))}

Keys(d) == [i \in 1..Len(d) |-> d[i][1]]

KeySet(d) == {d[i][1] : i \in 1..Len(d)}

Lookup(d, k) == d[CHOOSE i \in 1..Len(d) : d[i][1] = k][2]

\* list.index(x): 0-based position of the first x
ListIndex(s, x) == (CHOOSE i \in 1..Len(s) : s[i] = x /\ \A j \in 1..(i - 1) : s[j] # x) - 1

RECURSIVE SumSeq(_)
SumSeq(s) == IF s = <<>> THEN 0 ELSE Head(s) + SumSeq(Tail(s))

\* numpy fancy indexing row[[i0, i1, ...]] with 0-based indices
Take(row, idx) == [j \in 1..Len(idx) |-> row[idx[j] + 1]]

\* ------------------------------------------------------------------ strings
TAB == [k |-> "tab"]

Txt(s) == <<[k |-> "txt", s |-> s]>>

\* str(v) of a number or object: one piece of text without a tab
Str(v) == <<[k |-> "val", v |-> v]>>

RECURSIVE Join(_, _)
Join(sep, cells) ==
    IF cells = <<>> THEN <<>>
    ELSE IF Len(cells) = 1 THEN cells[1]
    ELSE cells[1] \o sep \o Join(sep, Tail(cells))

RECURSIVE SplitFrom(_, _, _)
SplitFrom(line, sep, cur) ==
    IF line = <<>> THEN <<cur>>
    ELSE IF Head(line) = sep THEN <<cur>> \o SplitFrom(Tail(line), sep, <<>>)
    ELSE SplitFrom(Tail(line), sep, Append(cur, Head(line)))

\* x.split('\t')
Split(line) == SplitFrom(line, TAB, <<>>)

\* ---------------------------------------------------- external collaborators
\* a test function of the table called on args: its outputs are opaque
TestOut(name, args, out) == [fn |-> name, out |-> out, with |-> args]

\* numpy's array.mean(), kept exact as sum and count
Mean(arr) == [fn |-> "mean", sum |-> SumSeq(arr), n |-> Len(arr)]

\* the multiple-testing corrections applied by the scripts between runner and
\* formatter: same length and order as the p-values
Correct(kind, pvals) == [i \in 1..Len(pvals) |-> [fn |-> kind, ps |-> pvals, i |-> i]]

\* qiime.util.biom_taxonomy_formatter: the row's annotation as text
biom_taxonomy_formatter(md) == <<[k |-> "tax", v |-> md]>>

\* -------------------------------------------------------------- test tables
GROUP_TEST_CHOICES == {"ANOVA", "g_test", "kruskal_wallis", "parametric_t_test",
                       "nonparametric_t_test", "mann_whitney_u",
                       "bootstrap_mann_whitney_u"}

TWO_GROUP_TESTS == {"parametric_t_test", "nonparametric_t_test",
                    "mann_whitney_u", "bootstrap_mann_whitney_u"}

CORRELATION_TEST_CHOICES == {"pearson", "spearman", "kendall"}

\* the test names a caller passes: the keys of the table and one that is none
GroupTestNames == GROUP_TEST_CHOICES \cup {"bogus"}
CorrelationTestNames == CORRELATION_TEST_CHOICES \cup {"bogus"}

\* ------------------------------------------------------------ biom table
\* the count of observation i in the j-th sample: all cells differ, so a
\* slice of a row tells which columns it was taken from
Count(i, j, ncols) == (i - 1) * ncols + j

BiomTables ==
    {[SampleIds |-> sids,
      ObservationIds |-> [i \in 1..r |-> ObservationNames[i]],
      data |-> [i \in 1..r |-> [j \in 1..Len(sids) |-> Count(i, j, Len(sids))]],
      ObservationMetadata |-> md] :
        sids \in SampleIdLists,
        r \in 0..MaxRows,
        md \in {"None", "taxonomy"}}

\* bt.observationData(i) for i in bt.ObservationIds, stacked
ObservationData(b) == b.data

\* bt.ObservationMetadata[i]
RowMetadata(b, i) == [taxonomy |-> b.ObservationIds[i]]

\* the parsed mapping files: every grouping value for every sample; the
\* gradient cell of a sample is its own number, or "abc" for the samples in bad
MappingFile(c, bad) ==
    [s \in Samples |-> [Treatment |-> c[s],
                        Gradient  |-> IF s \in bad THEN "abc" ELSE GradientText[s]]]


\* ------------------------------------------------------- metadata grouper
SeqOf(S) == CHOOSE s \in [1..Cardinality(S) -> S] : Range(s) = S

\* the items of {k: pmf[k][category] for k in pmf.keys() if ... != ""}
SampleCatItems(p, category) ==
    SeqOf({<<k, p[k][category]>> : k \in {s \in DOMAIN p : p[s][category] # ""}})

\* get_sample_cats without its filter on the empty value
get_sample_cats_keep_empty(p, category) ==
    DictOrders(SeqOf({<<k, p[k][category]>> : k \in DOMAIN p}))

\* get_sample_cats: the dicts the comprehension can build
get_sample_cats(p, category) == DictOrders(SampleCatItems(p, category))

\* the list cat_sam_groups[g] after the appends, which run in the order of
\* sam_cats.items()
GroupMembers(sc, g) ==
    LET hits == SelectSeq(sc, LAMBDA kv : kv[2] = g)
    IN  [i \in 1..Len(hits) |-> hits[i][1]]

\* get_cat_sample_groups: one key per value in set(sam_cats.values())
get_cat_sample_groups(sc) ==
    LET groups == SeqOf({sc[i][2] : i \in 1..Len(sc)})
    IN  DictOrders([i \in 1..Len(groups) |-> <<groups[i], GroupMembers(sc, groups[i])>>])

\* [bt.SampleIds.index(i) for i in v]
SampleIndexList(v, b) == [j \in 1..Len(v) |-> ListIndex(b.SampleIds, v[j])]

\* get_sample_indices, when every sample is a column of the table
get_sample_indices(csg, b) ==
    DictOrders([i \in 1..Len(csg) |-> <<csg[i][1], SampleIndexList(csg[i][2], b)>>])

\* list.index raises ValueError for a sample that is no column of the table
UnknownSample(csg, b) ==
    \E i \in 1..Len(csg) : \E j \in 1..Len(csg[i][2]) :
        csg[i][2][j] \notin Range(b.SampleIds)

GetSampleCats ==
    /\ script \in {"group_significance", "longitudinal_correlation"}
    /\ pc = "start" /\ raised = ""
    /\ sam_cats' \in get_sample_cats(pmf, CatField)
    /\ pc' = "get_sample_cats"
    /\ UNCHANGED <<script, s_before, s_after, ind, raised, bt, pmf, cat_sam_groups, cat_sam_indices,
                   data_generator, test, result, lines, calls>>

GetCatSampleGroups ==
    /\ pc = "get_sample_cats" /\ raised = ""
    /\ cat_sam_groups' \in get_cat_sample_groups(sam_cats)
    /\ pc' = "get_cat_sample_groups"
    /\ UNCHANGED <<script, s_before, s_after, ind, raised, bt, pmf, sam_cats, cat_sam_indices,
                   data_generator, test, result, lines, calls>>

GetSampleIndices ==
    /\ pc = "get_cat_sample_groups" /\ raised = ""
    /\ pc' = "get_sample_indices"
    /\ IF UnknownSample(cat_sam_groups, bt)
       THEN /\ raised' = "ValueError"
            /\ UNCHANGED cat_sam_indices
       ELSE /\ cat_sam_indices' \in get_sample_indices(cat_sam_groups, bt)
            /\ UNCHANGED raised
    /\ UNCHANGED <<script, s_before, s_after, ind, bt, pmf, sam_cats, cat_sam_groups,
                   data_generator, test, result, lines, calls>>


\* --------------------------------------------- group significance: slices
\* reps=1000, the default number of permutations
DefaultReps == 1000

\* [row[cat_sam_indices[k]] for k in cat_sam_indices]
GroupSlice(row, csi) == [g \in 1..Len(csi) |-> Take(row, csi[g][2])]

\* group_significance_row_generator: data is stacked when the generator is
\* made, the slices are cut when it is iterated, from the dict it closes over
group_significance_row_generator(b, csi) ==
    [kind |-> "group", data |-> ObservationData(b), idx |-> csi]

GroupSignificanceRowGenerator ==
    /\ script = "group_significance"
    /\ pc = "get_sample_indices" /\ raised = ""
    /\ data_generator' = group_significance_row_generator(bt, cat_sam_indices)
    /\ pc' = "group_significance_row_generator"
    /\ UNCHANGED <<script, s_before, s_after, ind, raised, bt, pmf, sam_cats, cat_sam_groups, cat_sam_indices,
                   test, result, lines, calls>>

\* ---------------------------------------------- group significance: runner
\* the exception one pass of the loop body raises on this row, "" when none
GroupRowRaises(t, row) ==
    IF t \in {"nonparametric_t_test", "bootstrap_mann_whitney_u",
              "parametric_t_test", "mann_whitney_u"}
    THEN IF Len(row) < 2 THEN "IndexError" ELSE ""
    ELSE IF t \notin GROUP_TEST_CHOICES THEN "KeyError" ELSE ""

\* the arguments the loop body passes to test_choices[test]
GroupTestArgs(t, row) ==
    IF t \in {"nonparametric_t_test", "bootstrap_mann_whitney_u"}
    THEN <<row[1], row[2], DefaultReps>>
    ELSE IF t \in {"parametric_t_test", "mann_whitney_u"}
    THEN <<row[1], row[2]>>
    ELSE <<row>>

\* [i.mean() for i in row]
RowMeans(row) == [g \in 1..Len(row) |-> Mean(row[g])]

\* run_group_significance_test with its return statement inside the loop
run_group_significance_test_return_in_loop(gen, t) ==
    LET rows == [i \in 1..Len(gen.data) |-> GroupSlice(gen.data[i], gen.idx)]
        err  == IF rows = <<>> THEN "" ELSE GroupRowRaises(t, rows[1])
        n    == IF err # "" THEN 0 ELSE IF Len(rows) > 1 THEN 1 ELSE Len(rows)
    IN  [raised |-> err, calls |-> n,
         test_stats |-> [i \in 1..n |-> TestOut(t, GroupTestArgs(t, rows[i]), "stat")],
         pvals |-> [i \in 1..n |-> TestOut(t, GroupTestArgs(t, rows[i]), "pval")],
         means |-> [i \in 1..n |-> RowMeans(rows[i])]]

\* run_group_significance_test: the lists returned, or the exception of the
\* first row that raises; calls counts the test functions called
run_group_significance_test(gen, t) ==
    LET rows == [i \in 1..Len(gen.data) |-> GroupSlice(gen.data[i], gen.idx)]
        bad  == {i \in 1..Len(rows) : GroupRowRaises(t, rows[i]) # ""}
        stop == CHOOSE i \in bad : \A j \in bad : i <= j
    IN  IF bad # {}
        THEN [raised |-> GroupRowRaises(t, rows[stop]), calls |-> stop - 1,
              test_stats |-> <<>>, pvals |-> <<>>, means |-> <<>>]
        ELSE [raised |-> "", calls |-> Len(rows),
              test_stats |-> [i \in 1..Len(rows) |->
                                TestOut(t, GroupTestArgs(t, rows[i]), "stat")],
              pvals |-> [i \in 1..Len(rows) |->
                                TestOut(t, GroupTestArgs(t, rows[i]), "pval")],
              means |-> [i \in 1..Len(rows) |-> RowMeans(rows[i])]]

RunGroupSignificanceTest ==
    /\ pc = "group_significance_row_generator" /\ raised = ""
    /\ \E t \in GroupTestNames :
         LET r == run_group_significance_test(data_generator, t)
         IN  /\ test' = t
             /\ raised' = r.raised
             /\ calls' = calls + r.calls
             /\ result' = [test_stats |-> r.test_stats, pvals |-> r.pvals,
                           means |-> r.means]
    /\ pc' = "run_group_significance_test"
    /\ UNCHANGED <<script, s_before, s_after, ind, bt, pmf, sam_cats, cat_sam_groups, cat_sam_indices,
                   data_generator, lines>>

\* ------------------------------------------- group significance: formatter
\* a formatter that leaves the Taxonomy cell out of its rows
TaxonomyCellsForgotten(b, i) == <<>>

\* the Taxonomy cell of row i, when the table has row annotations
TaxonomyCells(b, i) ==
    IF b.ObservationMetadata = "None" THEN <<>>
    ELSE <<biom_taxonomy_formatter(RowMetadata(b, i))>>

TaxonomyHeader(b) ==
    IF b.ObservationMetadata = "None" THEN <<>> ELSE <<Txt("Taxonomy")>>

\* the headers taken from sorted(cat_sample_indices.keys()) instead
MeanHeadersSorted(csi) ==
    LET sorted == SelectSeq(<<"A", "B">>, LAMBDA x : x \in KeySet(csi))
    IN  [g \in 1..Len(sorted) |-> Txt(sorted[g]) \o Txt("_mean")]

\* ['%s_mean' % i for i in cat_sample_indices.keys()]
MeanHeaders(csi) == [g \in 1..Len(csi) |-> Txt(csi[g][1]) \o Txt("_mean")]

group_significance_output_formatter(b, test_stats, pvals, fdr_pvals, bon_pvals, means, csi) ==
    LET header == <<Txt("OTU"), Txt("Test-Statistic"), Txt("P"), Txt("FDR_P"),
                    Txt("Bonferroni_P")>> \o MeanHeaders(csi) \o TaxonomyHeader(b)
        tmp(i) == <<Txt(b.ObservationIds[i]), Str(test_stats[i]), Str(pvals[i]),
                    Str(fdr_pvals[i]), Str(bon_pvals[i])>>
                  \o [g \in 1..Len(means[i]) |-> Str(means[i][g])]
                  \o TaxonomyCells(b, i)
    IN  <<Join(<<TAB>>, header)>> \o [i \in 1..Len(pvals) |-> Join(<<TAB>>, tmp(i))]

GroupSignificanceOutputFormatter ==
    /\ pc = "run_group_significance_test" /\ raised = ""
    /\ lines' = group_significance_output_formatter(bt, result.test_stats,
                    result.pvals, Correct("fdr", result.pvals),
                    Correct("bonferroni", result.pvals), result.means,
                    cat_sam_indices)
    /\ pc' = "group_significance_output_formatter"
    /\ UNCHANGED <<script, s_before, s_after, ind, raised, bt, pmf, sam_cats, cat_sam_groups, cat_sam_indices,
                   data_generator, test, result, calls>>

\* --------------------------------------------------- group significance
InitGroup ==
    /\ script = "group_significance"
    /\ s_before = <<>> /\ s_after = <<>> /\ ind = 0
    /\ pc = "start" /\ raised = ""
    /\ bt \in BiomTables
    /\ pmf \in {MappingFile(c, {}) : c \in [Samples -> CategoryValues]}
    /\ sam_cats = <<>> /\ cat_sam_groups = <<>> /\ cat_sam_indices = <<>>
    /\ data_generator = [kind |-> "none"]
    /\ test = "" /\ result = [kind |-> "none"] /\ lines = <<>> /\ calls = 0

NextGroup ==
    \/ GetSampleCats
    \/ GetCatSampleGroups
    \/ GetSampleIndices
    \/ GroupSignificanceRowGenerator
    \/ RunGroupSignificanceTest
    \/ GroupSignificanceOutputFormatter

SpecGroup == InitGroup /\ [][NextGroup]_vars


\* ------------------------------------------------- gradient correlation
\* float(text) for the cells of the mapping file: the number, or no number
\* (float raises ValueError)
ParseFloat(text) ==
    CASE text = "1" -> [f |-> "num", n |-> 1]
      [] text = "2" -> [f |-> "num", n |-> 2]
      [] text = "3" -> [f |-> "num", n |-> 3]
      [] OTHER -> [f |-> "ValueError"]

\* array(texts).astype(float): raises ValueError when a cell is no number
AsFloat(texts) ==
    IF \E i \in 1..Len(texts) : ParseFloat(texts[i]).f = "ValueError"
    THEN [raised |-> "ValueError", vals |-> <<>>]
    ELSE [raised |-> "", vals |-> [i \in 1..Len(texts) |-> ParseFloat(texts[i])]]

\* a conversion that fills what it cannot convert with nan
AsFloatNanFill(texts) ==
    [raised |-> "",
     vals |-> [i \in 1..Len(texts) |->
                 IF ParseFloat(texts[i]).f = "ValueError" THEN [f |-> "nan"]
                 ELSE ParseFloat(texts[i])]]

\* correlation_row_generator with the nan-filling conversion
correlation_row_generator_nan_fill(b, p, category) ==
    LET cat_vect == AsFloatNanFill([j \in 1..Len(b.SampleIds) |-> p[b.SampleIds[j]][category]])
    IN  [raised |-> "",
         gen |-> [kind |-> "correlation", data |-> ObservationData(b),
                  cat_vect |-> cat_vect.vals]]

\* correlation_row_generator: the gradient vector is converted when the
\* function is called; the generator it returns only pairs rows with it
correlation_row_generator(b, p, category) ==
    LET cat_vect == AsFloat([j \in 1..Len(b.SampleIds) |-> p[b.SampleIds[j]][category]])
    IN  IF cat_vect.raised # ""
        THEN [raised |-> "ValueError", gen |-> [kind |-> "none"]]
        ELSE [raised |-> "",
              gen |-> [kind |-> "correlation", data |-> ObservationData(b),
                       cat_vect |-> cat_vect.vals]]

CorrelationRowGenerator ==
    /\ script = "gradient_correlation"
    /\ pc = "start" /\ raised = ""
    /\ LET r == correlation_row_generator(bt, pmf, GradField)
       IN  raised' = r.raised /\ data_generator' = r.gen
    /\ pc' = "correlation_row_generator"
    /\ UNCHANGED <<script, s_before, s_after, ind, bt, pmf, sam_cats, cat_sam_groups, cat_sam_indices,
                   test, result, lines, calls>>

\* the statistics of one row: test_fn(row[0], row[1]) and what is derived
parametric_correlation_significance(r, n) ==
    TestOut("parametric_correlation_significance", <<r, n>>, "pval")

nonparametric_correlation_significance(r, t, x, y) ==
    TestOut("nonparametric_correlation_significance", <<r, t, x, y>>, "pval")

fisher_confidence_intervals(r, n) ==
    [ci_low  |-> TestOut("fisher_confidence_intervals", <<r, n>>, "ci_low"),
     ci_high |-> TestOut("fisher_confidence_intervals", <<r, n>>, "ci_high")]

CorrelationStat(t, x, y) == TestOut(t, <<x, y>>, "stat")

\* kendalls_tau returns its own p-value; the others get the parametric one
CorrelationPval(t, x, y) ==
    IF t = "kendall" THEN TestOut(t, <<x, y>>, "pval")
    ELSE parametric_correlation_significance(CorrelationStat(t, x, y), Len(x))

\* run_correlation_test: test_choices[test] is looked up before the loop
run_correlation_test(gen, t) ==
    LET R    == Len(gen.data)
        y    == gen.cat_vect
        r(i) == CorrelationStat(t, gen.data[i], y)
    IN  IF t \notin CORRELATION_TEST_CHOICES
        THEN [raised |-> "KeyError", calls |-> 0, corr_coefs |-> <<>>,
              p_pvals |-> <<>>, np_pvals |-> <<>>, ci_highs |-> <<>>,
              ci_lows |-> <<>>]
        ELSE [raised |-> "", calls |-> R,
              corr_coefs |-> [i \in 1..R |-> r(i)],
              p_pvals |-> [i \in 1..R |-> CorrelationPval(t, gen.data[i], y)],
              np_pvals |-> [i \in 1..R |->
                  nonparametric_correlation_significance(r(i), t, gen.data[i], y)],
              ci_highs |-> [i \in 1..R |->
                  fisher_confidence_intervals(r(i), Len(gen.data[i])).ci_high],
              ci_lows |-> [i \in 1..R |->
                  fisher_confidence_intervals(r(i), Len(gen.data[i])).ci_low]]

RunCorrelationTest ==
    /\ pc = "correlation_row_generator" /\ raised = ""
    /\ \E t \in CorrelationTestNames :
         LET r == run_correlation_test(data_generator, t)
         IN  /\ test' = t
             /\ raised' = r.raised
             /\ calls' = calls + r.calls
             /\ result' = [corr_coefs |-> r.corr_coefs, p_pvals |-> r.p_pvals,
                           np_pvals |-> r.np_pvals, ci_highs |-> r.ci_highs,
                           ci_lows |-> r.ci_lows]
    /\ pc' = "run_correlation_test"
    /\ UNCHANGED <<script, s_before, s_after, ind, bt, pmf, sam_cats, cat_sam_groups, cat_sam_indices,
                   data_generator, lines>>

correlation_output_formatter(b, corr_coefs, p_pvals, p_pvals_fdr, p_vals_bon, np_pvals, np_pvals_fdr, np_pvals_bon, ci_highs, ci_lows) ==
    LET header == <<Txt("OTU"), Txt("Correlation_Coef"), Txt("parametric_P"),
                    Txt("parametric_P_FDR"), Txt("parametric_P_Bon"),
                    Txt("nonparametric_P"), Txt("nonparametric_P_FDR"),
                    Txt("nonparametric_P_Bon"), Txt("confidence_low"),
                    Txt("confidence_high")>> \o TaxonomyHeader(b)
        tmp(i) == <<Txt(b.ObservationIds[i]), Str(corr_coefs[i]), Str(p_pvals[i]),
                    Str(p_pvals_fdr[i]), Str(p_vals_bon[i]), Str(np_pvals[i]),
                    Str(np_pvals_fdr[i]), Str(np_pvals_bon[i]), Str(ci_highs[i]),
                    Str(ci_lows[i])>> \o TaxonomyCells(b, i)
    IN  <<Join(<<TAB>>, header)>>
        \o [i \in 1..Len(corr_coefs) |-> Join(<<TAB>>, tmp(i))]

CorrelationOutputFormatter ==
    /\ pc = "run_correlation_test" /\ raised = ""
    /\ lines' = correlation_output_formatter(bt, result.corr_coefs,
                    result.p_pvals, Correct("fdr", result.p_pvals),
                    Correct("bonferroni", result.p_pvals), result.np_pvals,
                    Correct("fdr", result.np_pvals),
                    Correct("bonferroni", result.np_pvals),
                    result.ci_highs, result.ci_lows)
    /\ pc' = "correlation_output_formatter"
    /\ UNCHANGED <<script, s_before, s_after, ind, raised, bt, pmf, sam_cats, cat_sam_groups,
                   cat_sam_indices, data_generator, test, result, calls>>

InitCorrelation ==
    /\ script = "gradient_correlation"
    /\ s_before = <<>> /\ s_after = <<>> /\ ind = 0
    /\ pc = "start" /\ raised = ""
    /\ bt \in BiomTables
    /\ pmf \in {MappingFile([s \in Samples |-> "A"], bad) : bad \in SUBSET Samples}
    /\ sam_cats = <<>> /\ cat_sam_groups = <<>> /\ cat_sam_indices = <<>>
    /\ data_generator = [kind |-> "none"]
    /\ test = "" /\ result = [kind |-> "none"] /\ lines = <<>> /\ calls = 0

NextCorrelation ==
    \/ CorrelationRowGenerator
    \/ RunCorrelationTest
    \/ CorrelationOutputFormatter

SpecCorrelation == InitCorrelation /\ [][NextCorrelation]_vars

\* --------------------------------------------- longitudinal correlation
\* [array([pmf[sid][category] for sid in sids]).astype(float)
\*  for hsid, sids in hsid_to_samples.items()]
LongitudinalArrays(p, category, h2s) ==
    [g \in 1..Len(h2s) |->
        AsFloat([j \in 1..Len(h2s[g][2]) |-> p[h2s[g][2][j]][category]])]

\* longitudinal_row_generator: l_arr is built when the function is called,
\* in the order of hsid_to_samples; the rows are cut when the generator is
\* iterated, in the order of hsid_to_sample_indices
longitudinal_row_generator(b, p, category, h2s, h2i) ==
    LET l_arr == LongitudinalArrays(p, category, h2s)
    IN  IF \E g \in 1..Len(l_arr) : l_arr[g].raised # ""
        THEN [raised |-> "ValueError", gen |-> [kind |-> "none"]]
        ELSE [raised |-> "",
              gen |-> [kind |-> "longitudinal", data |-> ObservationData(b),
                       idx |-> h2i,
                       l_arr |-> [g \in 1..Len(l_arr) |-> l_arr[g].vals]]]

LongitudinalRowGenerator ==
    /\ script = "longitudinal_correlation"
    /\ pc = "get_sample_indices" /\ raised = ""
    /\ LET r == longitudinal_row_generator(bt, pmf, GradField, cat_sam_groups,
                                           cat_sam_indices)
       IN  raised' = r.raised /\ data_generator' = r.gen
    /\ pc' = "longitudinal_row_generator"
    /\ UNCHANGED <<script, s_before, s_after, ind, bt, pmf, sam_cats, cat_sam_groups, cat_sam_indices,
                   test, result, lines, calls>>

\* what test_fn(obs_vals[i], gradient_vals[i]) returns: kendalls_tau returns
\* the pair (tau, p-value), the other two the coefficient
TestReturn(t, x, y) ==
    IF t = "kendall" THEN TestOut(t, <<x, y>>, "(stat, pval)")
    ELSE TestOut(t, <<x, y>>, "stat")

\* lines 204-208.  The branch on test == 'kendall' is unfinished in the file
\* ("pval = " has no right-hand side) and the statement after it assigns
\* pval again for every test: what is appended is the parametric significance
\* of whatever test_fn returned.
LongitudinalPval(t, r, n) == parametric_correlation_significance(r, n)

fisher(pvals) == TestOut("fisher", <<pvals>>, "pval")

fisher_population_correlation(rs, sizes) ==
    [rho |-> TestOut("fisher_population_correlation", <<rs, sizes>>, "rho"),
     h   |-> TestOut("fisher_population_correlation", <<rs, sizes>>, "h")]

\* the values of one feature: the subjects' coefficients and p-values
LongitudinalRow(t, obs_vals, gradient_vals) ==
    LET rs_i == [i \in 1..Len(obs_vals) |->
                    TestReturn(t, obs_vals[i], gradient_vals[i])]
        pvals_i == [i \in 1..Len(obs_vals) |->
                    LongitudinalPval(t, rs_i[i], Len(obs_vals[i]))]
        sizes == [i \in 1..Len(obs_vals) |-> Len(obs_vals[i])]
    IN  [rs_i |-> rs_i, pvals_i |-> pvals_i,
         combo_pval |-> fisher(pvals_i),
         combo_rho |-> fisher_population_correlation(rs_i, sizes).rho,
         h |-> fisher_population_correlation(rs_i, sizes).h]

\* run_longitudinal_correlation_test.  kendall_pval and
\* fisher_population_correlation are used but not imported by the file:
\* bound tells whether the module's namespace binds them when the runner is
\* called; when it does not, the first row raises NameError.
run_longitudinal_correlation_test(gen, t, bound) ==
    LET R == Len(gen.data)
        N == Len(gen.idx)
        row(i) == LongitudinalRow(t, GroupSlice(gen.data[i], gen.idx), gen.l_arr)
        none == [rs |-> <<>>, pvals |-> <<>>, combo_pvals |-> <<>>,
                 combo_rhos |-> <<>>, homogenous |-> <<>>]
    IN  IF t \notin CORRELATION_TEST_CHOICES
        THEN [raised |-> "KeyError", calls |-> 0] @@ none
        ELSE IF R > 0 /\ ~bound
        THEN [raised |-> "NameError",
              calls |-> IF N = 0 THEN 0 ELSE IF t = "kendall" THEN 1 ELSE N] @@ none
        ELSE [raised |-> "", calls |-> R * N,
              rs |-> [i \in 1..R |-> row(i).rs_i],
              pvals |-> [i \in 1..R |-> row(i).pvals_i],
              combo_pvals |-> [i \in 1..R |-> row(i).combo_pval],
              combo_rhos |-> [i \in 1..R |-> row(i).combo_rho],
              homogenous |-> [i \in 1..R |-> row(i).h]]

RunLongitudinalCorrelationTest ==
    /\ pc = "longitudinal_row_generator" /\ raised = ""
    /\ \E t \in CorrelationTestNames, bound \in BOOLEAN :
         LET r == run_longitudinal_correlation_test(data_generator, t, bound)
         IN  /\ test' = t
             /\ raised' = r.raised
             /\ calls' = calls + r.calls
             /\ result' = [rs |-> r.rs, pvals |-> r.pvals,
                           combo_pvals |-> r.combo_pvals,
                           combo_rhos |-> r.combo_rhos,
                           homogenous |-> r.homogenous]
    /\ pc' = "run_longitudinal_correlation_test"
    /\ UNCHANGED <<script, s_before, s_after, ind, bt, pmf, sam_cats, cat_sam_groups, cat_sam_indices,
                   data_generator, lines>>

\* ', '.join(texts)
CommaJoin(texts) == Join(Txt(", "), texts)

longitudinal_correlation_formatter(b, combo_rhos, combo_pvals, homogenous, fdr_ps, bon_ps, corrcoefs, h2s) ==
    LET ind_order == CommaJoin([g \in 1..Len(h2s) |-> Txt(h2s[g][1])])
        header == <<Txt("OTU"), Txt("Fisher Combined Rho"),
                    Txt("P Rho is Homogenous"), Txt("Fisher Combined P"),
                    Txt("FDR P"), Txt("Bonferroni P"), Txt("Corrcoefs"),
                    Txt("Individual Order")>> \o TaxonomyHeader(b)
        tmp(i) == <<Txt(b.ObservationIds[i]), Str(combo_rhos[i]),
                    Str(homogenous[i]), Str(combo_pvals[i]), Str(fdr_ps[i]),
                    Str(bon_ps[i]),
                    CommaJoin([g \in 1..Len(corrcoefs[i]) |-> Str(corrcoefs[i][g])]),
                    ind_order>> \o TaxonomyCells(b, i)
    IN  <<Join(<<TAB>>, header)>>
        \o [i \in 1..Len(combo_rhos) |-> Join(<<TAB>>, tmp(i))]

LongitudinalCorrelationFormatter ==
    /\ pc = "run_longitudinal_correlation_test" /\ raised = ""
    /\ lines' = longitudinal_correlation_formatter(bt, result.combo_rhos,
                    result.combo_pvals, result.homogenous,
                    Correct("fdr", result.combo_pvals),
                    Correct("bonferroni", result.combo_pvals), result.rs,
                    cat_sam_groups)
    /\ pc' = "longitudinal_correlation_formatter"
    /\ UNCHANGED <<script, s_before, s_after, ind, raised, bt, pmf, sam_cats, cat_sam_groups,
                   cat_sam_indices, data_generator, test, result, calls>>

\* the gradient field of no sample, or of one, holds "abc"
BadGradientSets == {{}} \cup {{s} : s \in Samples}

InitLongitudinal ==
    /\ script = "longitudinal_correlation"
    /\ s_before = <<>> /\ s_after = <<>> /\ ind = 0
    /\ pc = "start" /\ raised = ""
    /\ bt \in BiomTables
    /\ pmf \in {MappingFile(c, bad) :
                  c \in [Samples -> CategoryValues], bad \in BadGradientSets}
    /\ sam_cats = <<>> /\ cat_sam_groups = <<>> /\ cat_sam_indices = <<>>
    /\ data_generator = [kind |-> "none"]
    /\ test = "" /\ result = [kind |-> "none"] /\ lines = <<>> /\ calls = 0

NextLongitudinal ==
    \/ GetSampleCats
    \/ GetCatSampleGroups
    \/ GetSampleIndices
    \/ LongitudinalRowGenerator
    \/ RunLongitudinalCorrelationTest
    \/ LongitudinalCorrelationFormatter

SpecLongitudinal == InitLongitudinal /\ [][NextLongitudinal]_vars

\* --------------------------------------------------------- paired t test
\* bt.sampleData(i): the column of sample i, or UnknownID
SampleData(b, sid) == [i \in 1..Len(b.data) |-> b.data[i][ListIndex(b.SampleIds, sid) + 1]]

\* vstack([bt.sampleData(i) for i in sids]).T: one row per observation
StackedColumns(b, sids) ==
    [i \in 1..Len(b.data) |-> [j \in 1..Len(sids) |-> SampleData(b, sids[j])[i]]]

\* paired_t_generator: both blocks are stacked when the function is called.
\* sampleData raises for an id that is no column, vstack raises ValueError
\* for an empty list; the lengths of the two lists are not compared.
paired_t_generator(b, before, after) ==
    IF \E j \in 1..Len(before) : before[j] \notin Range(b.SampleIds)
    THEN [raised |-> "UnknownID", gen |-> [kind |-> "none"]]
    ELSE IF before = <<>>
    THEN [raised |-> "ValueError", gen |-> [kind |-> "none"]]
    ELSE IF \E j \in 1..Len(after) : after[j] \notin Range(b.SampleIds)
    THEN [raised |-> "UnknownID", gen |-> [kind |-> "none"]]
    ELSE IF after = <<>>
    THEN [raised |-> "ValueError", gen |-> [kind |-> "none"]]
    ELSE [raised |-> "",
          gen |-> [kind |-> "paired", b_data |-> StackedColumns(b, before),
                   a_data |-> StackedColumns(b, after)]]

PairedTGenerator ==
    /\ script = "paired_t"
    /\ pc = "start" /\ raised = ""
    /\ LET r == paired_t_generator(bt, s_before, s_after)
       IN  raised' = r.raised /\ data_generator' = r.gen
    /\ pc' = "paired_t_generator"
    /\ UNCHANGED <<script, s_before, s_after, ind, bt, pmf, sam_cats,
                   cat_sam_groups, cat_sam_indices, test, result, lines, calls>>

\* run_paired_t.  t_paired is outside the file: strict tells whether it
\* raises for two arrays of different lengths.
run_paired_t(gen, strict) ==
    LET R == Len(gen.b_data)
        uneven == \E i \in 1..R : Len(gen.b_data[i]) # Len(gen.a_data[i])
    IN  IF uneven /\ strict
        THEN [raised |-> "ValueError", calls |-> 1, test_stats |-> <<>>,
              pvals |-> <<>>]
        ELSE [raised |-> "", calls |-> R,
              test_stats |-> [i \in 1..R |->
                  TestOut("t_paired", <<gen.b_data[i], gen.a_data[i]>>, "stat")],
              pvals |-> [i \in 1..R |->
                  TestOut("t_paired", <<gen.b_data[i], gen.a_data[i]>>, "pval")]]

RunPairedT ==
    /\ pc = "paired_t_generator" /\ raised = ""
    /\ \E strict \in BOOLEAN :
         LET r == run_paired_t(data_generator, strict)
         IN  /\ raised' = r.raised
             /\ calls' = calls + r.calls
             /\ result' = [test_stats |-> r.test_stats, pvals |-> r.pvals]
    /\ pc' = "run_paired_t"
    /\ UNCHANGED <<script, s_before, s_after, ind, bt, pmf, sam_cats,
                   cat_sam_groups, cat_sam_indices, data_generator, test, lines>>

paired_t_output_formatter(b, test_stats, pvals, fdr_pvals, bon_pvals) ==
    LET header == <<Txt("OTU"), Txt("Test-Statistic"), Txt("P"), Txt("FDR_P"),
                    Txt("Bonferroni_P")>> \o TaxonomyHeader(b)
        tmp(i) == <<Txt(b.ObservationIds[i]), Str(test_stats[i]), Str(pvals[i]),
                    Str(fdr_pvals[i]), Str(bon_pvals[i])>> \o TaxonomyCells(b, i)
    IN  <<Join(<<TAB>>, header)>> \o [i \in 1..Len(pvals) |-> Join(<<TAB>>, tmp(i))]

PairedTOutputFormatter ==
    /\ pc = "run_paired_t" /\ raised = ""
    /\ lines' = paired_t_output_formatter(bt, result.test_stats, result.pvals,
                    Correct("fdr", result.pvals),
                    Correct("bonferroni", result.pvals))
    /\ pc' = "paired_t_output_formatter"
    /\ UNCHANGED <<script, s_before, s_after, ind, raised, bt, pmf, sam_cats,
                   cat_sam_groups, cat_sam_indices, data_generator, test,
                   result, calls>>

\* the lists of sample ids a caller passes: no id twice, at most MaxPaired
SampleLists ==
    UNION {{l \in [1..n -> Samples] : \A i, j \in 1..n : l[i] = l[j] => i = j} :
             n \in 0..MaxPaired}

InitPaired ==
    /\ script = "paired_t"
    /\ s_before \in SampleLists /\ s_after \in SampleLists /\ ind = 0
    /\ pc = "start" /\ raised = ""
    /\ bt \in BiomTables
    /\ pmf = MappingFile([s \in Samples |-> "A"], {})
    /\ sam_cats = <<>> /\ cat_sam_groups = <<>> /\ cat_sam_indices = <<>>
    /\ data_generator = [kind |-> "none"]
    /\ test = "" /\ result = [kind |-> "none"] /\ lines = <<>> /\ calls = 0

NextPaired ==
    \/ PairedTGenerator
    \/ RunPairedT
    \/ PairedTOutputFormatter

SpecPaired == InitPaired /\ [][NextPaired]_vars

\* ------------------------------------------------------------ rank sorter
NaN == [f |-> "nan"]
Inf == [f |-> "inf"]
Num(n) == [f |-> "num", n |-> n]

\* float(cell): the float a cell was written from, or ValueError
CellFloat(cell) ==
    IF Len(cell) = 1 /\ cell[1].k = "val" THEN cell[1].v
    ELSE [f |-> "ValueError"]

\* the exception the key function raises on a line, "" when none
KeyRaises(line, i) ==
    LET cells == Split(line)
    IN  IF i + 1 > Len(cells) THEN "IndexError"
        ELSE IF CellFloat(cells[i + 1]).f = "ValueError" THEN "ValueError"
        ELSE ""

\* float(x.split('\t')[ind]) if not isnan(...) else inf
SortKey(line, i) ==
    LET v == CellFloat(Split(line)[i + 1])
    IN  IF v.f = "nan" THEN Inf ELSE v

\* a <= b for two keys, neither of them nan
KeyLE(a, b) == b.f = "inf" \/ (a.f = "num" /\ b.f = "num" /\ a.n <= b.n)

\* an unstable insertion: x put before the lines whose key equals its own
RECURSIVE InsertByKeyBeforeTies(_, _, _)
InsertByKeyBeforeTies(x, sorted, i) ==
    IF sorted = <<>> THEN <<x>>
    ELSE IF /\ KeyLE(SortKey(Head(sorted), i), SortKey(x, i))
            /\ ~KeyLE(SortKey(x, i), SortKey(Head(sorted), i))
    THEN <<Head(sorted)>> \o InsertByKeyBeforeTies(x, Tail(sorted), i)
    ELSE <<x>> \o sorted

\* x put after every line of the sorted list whose key is <= its own
RECURSIVE InsertByKey(_, _, _)
InsertByKey(x, sorted, i) ==
    IF sorted = <<>> THEN <<x>>
    ELSE IF KeyLE(SortKey(Head(sorted), i), SortKey(x, i))
    THEN <<Head(sorted)>> \o InsertByKey(x, Tail(sorted), i)
    ELSE <<x>> \o sorted

\* sorted(ls, key=...): stable, ascending
RECURSIVE Sorted(_, _)
Sorted(ls, i) ==
    IF ls = <<>> THEN <<>>
    ELSE InsertByKey(ls[Len(ls)], Sorted(SubSeq(ls, 1, Len(ls) - 1), i), i)

\* sort_by_pval: lines[0] raises IndexError for an empty list; the key of
\* every other line is computed in turn and the first failure is raised
sort_by_pval(ls, i) ==
    LET bad  == {n \in 2..Len(ls) : KeyRaises(ls[n], i) # ""}
        stop == CHOOSE n \in bad : \A m \in bad : n <= m
    IN  IF ls = <<>> THEN [raised |-> "IndexError", lines |-> <<>>]
        ELSE IF bad # {} THEN [raised |-> KeyRaises(ls[stop], i), lines |-> <<>>]
        ELSE [raised |-> "", lines |-> <<ls[1]>> \o Sorted(Tail(ls), i)]

SortByPval ==
    /\ script = "sort"
    /\ pc = "start" /\ raised = ""
    /\ LET r == sort_by_pval(lines, ind)
       IN  raised' = r.raised /\ result' = [lines |-> r.lines]
    /\ pc' = "sort_by_pval"
    /\ UNCHANGED <<script, s_before, s_after, ind, bt, pmf, sam_cats,
                   cat_sam_groups, cat_sam_indices, data_generator, test,
                   lines, calls>>

\* the cells of the sorted column: numbers, nan, inf, and text that is no
\* number
SortCells == {Str(Num(1)), Str(Num(2)), Str(NaN), Str(Inf), Txt("abc")}

\* tables of a header and up to MaxLines lines of an id and a cell, and the
\* empty list
SortTables ==
    {<<>>} \cup
    UNION {{<<Join(<<TAB>>, <<Txt("OTU"), Txt("P")>>)>>
            \o [n \in 1..k |-> Join(<<TAB>>, <<Txt(ObservationNames[n]), c[n]>>)] :
               c \in [1..k -> SortCells]} : k \in 0..MaxLines}

InitSort ==
    /\ script = "sort"
    /\ s_before = <<>> /\ s_after = <<>>
    /\ ind \in 0..2
    /\ lines \in SortTables
    /\ pc = "start" /\ raised = ""
    /\ bt = [SampleIds |-> <<>>, ObservationIds |-> <<>>, data |-> <<>>,
             ObservationMetadata |-> "None"]
    /\ pmf = MappingFile([s \in Samples |-> "A"], {})
    /\ sam_cats = <<>> /\ cat_sam_groups = <<>> /\ cat_sam_indices = <<>>
    /\ data_generator = [kind |-> "none"]
    /\ test = "" /\ result = [kind |-> "none"] /\ calls = 0

NextSort == SortByPval

SpecSort == InitSort /\ [][NextSort]_vars

\* sort_by_pval called on the list a first call returned, with the same
\* column index: result.arg is the argument of the second call
SortByPvalAgain ==
    /\ script = "sort"
    /\ pc = "sort_by_pval" /\ raised = ""
    /\ LET r == sort_by_pval(result.lines, ind)
       IN  raised' = r.raised /\ result' = [lines |-> r.lines, arg |-> result.lines]
    /\ pc' = "sort_by_pval_again"
    /\ UNCHANGED <<script, s_before, s_after, ind, bt, pmf, sam_cats,
                   cat_sam_groups, cat_sam_indices, data_generator, test,
                   lines, calls>>

NextResort ==
    \/ SortByPval
    \/ SortByPvalAgain

\* tables with two columns of cells that parse, to be sorted by either one
WideTables ==
    UNION {{<<Join(<<TAB>>, <<Txt("OTU"), Txt("P"), Txt("FDR_P")>>)>>
            \o [n \in 1..k |-> Join(<<TAB>>, <<Txt(ObservationNames[n]),
                                               c[n][1], c[n][2]>>)] :
               c \in [1..k -> (SortCells \ {Txt("abc")})
                                \X {Str(Num(1)), Str(NaN)}]} : k \in 1..MaxLines}

InitResort ==
    /\ script = "sort"
    /\ s_before = <<>> /\ s_after = <<>>
    /\ ind \in 0..2
    /\ lines \in SortTables \cup WideTables
    /\ pc = "start" /\ raised = ""
    /\ bt = [SampleIds |-> <<>>, ObservationIds |-> <<>>, data |-> <<>>,
             ObservationMetadata |-> "None"]
    /\ pmf = MappingFile([s \in Samples |-> "A"], {})
    /\ sam_cats = <<>> /\ cat_sam_groups = <<>> /\ cat_sam_indices = <<>>
    /\ data_generator = [kind |-> "none"]
    /\ test = "" /\ result = [kind |-> "none"] /\ calls = 0

SpecResort == InitResort /\ [][NextResort]_vars

\* ----------------------------------------------------------- all scripts
Init ==
    \/ InitGroup
    \/ InitCorrelation
    \/ InitLongitudinal
    \/ InitPaired
    \/ InitSort

Next ==
    \/ GetSampleCats
    \/ GetCatSampleGroups
    \/ GetSampleIndices
    \/ GroupSignificanceRowGenerator
    \/ RunGroupSignificanceTest
    \/ GroupSignificanceOutputFormatter
    \/ CorrelationRowGenerator
    \/ RunCorrelationTest
    \/ CorrelationOutputFormatter
    \/ LongitudinalRowGenerator
    \/ RunLongitudinalCorrelationTest
    \/ LongitudinalCorrelationFormatter
    \/ PairedTGenerator
    \/ RunPairedT
    \/ PairedTOutputFormatter
    \/ SortByPval

Spec == Init /\ [][Next]_vars

\* ======================================================= claims: grouper
\* how often sample s occurs in the lists of the group partition
Occurrences(csg, s) ==
    Cardinality({gj \in (1..Len(csg)) \X (1..Cardinality(Samples)) :
                    /\ gj[2] <= Len(csg[gj[1]][2])
                    /\ csg[gj[1]][2][gj[2]] = s})

\* the partition proper: a disjoint cover of the samples with a value, no
\* empty group, and every index the column of the sample at the same place
PartitionOfSamples(csg, csi) ==
    /\ \A s \in DOMAIN pmf :
          Occurrences(csg, s) = (IF pmf[s][CatField] # "" THEN 1 ELSE 0)
    /\ \A g \in 1..Len(csg) : Len(csg[g][2]) > 0
    /\ KeySet(csi) = KeySet(csg) /\ Len(csi) = Len(csg)
    /\ \A k \in KeySet(csg) :
          /\ Len(Lookup(csi, k)) = Len(Lookup(csg, k))
          /\ \A j \in 1..Len(Lookup(csg, k)) :
                bt.SampleIds[Lookup(csi, k)[j] + 1] = Lookup(csg, k)[j]

GrouperReturned == pc = "get_sample_indices" /\ raised = ""

\* C1 as stated: the composition yields a partition of the samples with a
\* value, and the column-index partition lists the group keys in the same
\* order as the group partition.
C1_PartitionSameKeyOrder ==
    GrouperReturned =>
        /\ PartitionOfSamples(cat_sam_groups, cat_sam_indices)
        /\ Keys(cat_sam_indices) = Keys(cat_sam_groups)

\* the part of C1 that holds: whenever get_sample_indices returns, every sample with a
\* non-empty value is in exactly one group, every sample with an empty value
\* in none, no group is empty, the column-index partition has the same set of
\* keys as the group partition, and under each key the j-th index is the
\* column of the j-th sample id.
C1_Partition ==
    GrouperReturned => PartitionOfSamples(cat_sam_groups, cat_sam_indices)

C1_Witness ==
    /\ GrouperReturned
    /\ Len(cat_sam_groups) = 2
    /\ \E s \in DOMAIN pmf : pmf[s][CatField] = ""
    /\ bt.SampleIds[1] # "s1"

\* ============================================ claims: group significance
Formatted == pc = "group_significance_output_formatter"

\* C2: under the header cell 'G_mean' every feature line holds the mean of
\* that feature's row restricted to the column indices of group G, and the
\* array the generator cut and the mean the runner computed at the same
\* position are those of group G as well.
C2_MeanUnderItsGroupHeader ==
    Formatted =>
        \A i \in 1..Len(bt.ObservationIds) : \A j \in 1..Len(cat_sam_indices) :
            LET hdr   == Split(lines[1])[5 + j]
                G     == CHOOSE k \in KeySet(cat_sam_indices) :
                            hdr = Txt(k) \o Txt("_mean")
                cols  == Lookup(cat_sam_indices, G)
                slice == GroupSlice(data_generator.data[i], data_generator.idx)
            IN  /\ \E k \in KeySet(cat_sam_indices) : hdr = Txt(k) \o Txt("_mean")
                /\ slice[j] = Take(bt.data[i], cols)
                /\ result.means[i][j] = Mean(Take(bt.data[i], cols))
                /\ Split(lines[i + 1])[5 + j] = Str(Mean(Take(bt.data[i], cols)))

C2_Witness ==
    /\ Formatted
    /\ Len(bt.ObservationIds) = MaxRows
    /\ Len(cat_sam_indices) = 2
    /\ Keys(cat_sam_indices) = <<"B", "A">>
    /\ Len(cat_sam_indices[1][2]) # Len(cat_sam_indices[2][2])

RunnerDone == pc = "run_group_significance_test"

\* what the runner returns for R rows and N groups: R statistics, R p-values
\* and R lists of N means, the i-th of each computed from the i-th row
RunnerShape ==
    LET R == Len(bt.ObservationIds)
        N == Len(cat_sam_indices)
    IN  /\ raised = ""
        /\ Len(result.test_stats) = R /\ Len(result.pvals) = R
        /\ Len(result.means) = R
        /\ \A i \in 1..R :
              LET row == [g \in 1..N |-> Take(bt.data[i], cat_sam_indices[g][2])]
              IN  /\ Len(result.means[i]) = N
                  /\ \A g \in 1..N : result.means[i][g] = Mean(row[g])
                  /\ result.test_stats[i] = TestOut(test, GroupTestArgs(test, row), "stat")
                  /\ result.pvals[i] = TestOut(test, GroupTestArgs(test, row), "pval")

Column(hdr, name) == CHOOSE c \in 1..Len(hdr) : hdr[c] = Txt(name)

\* C4: read back by column, every line of the correlation table holds the
\* values of its feature under the header's names: the coefficient, the two
\* p-values, and under 'confidence_low' and 'confidence_high' the lower and
\* the upper confidence bound computed for the feature.
C4_ConfidenceBoundsUnderTheirHeaders ==
    pc = "correlation_output_formatter" =>
        \A i \in 1..Len(bt.ObservationIds) :
            LET hdr   == Split(lines[1])
                cells == Split(lines[i + 1])
                ci    == fisher_confidence_intervals(result.corr_coefs[i],
                                                     Len(bt.data[i]))
            IN  /\ cells[Column(hdr, "OTU")] = Txt(bt.ObservationIds[i])
                /\ cells[Column(hdr, "Correlation_Coef")] = Str(result.corr_coefs[i])
                /\ cells[Column(hdr, "parametric_P")] = Str(result.p_pvals[i])
                /\ cells[Column(hdr, "nonparametric_P")] = Str(result.np_pvals[i])
                /\ cells[Column(hdr, "confidence_low")] = Str(ci.ci_low)
                /\ cells[Column(hdr, "confidence_high")] = Str(ci.ci_high)

\* the samples whose gradient cell the generator converts
ResolvedSamples ==
    IF script = "gradient_correlation" THEN Range(bt.SampleIds)
    ELSE UNION {Range(cat_sam_groups[g][2]) : g \in 1..Len(cat_sam_groups)}

NonNumericGradient == \E s \in ResolvedSamples : pmf[s][GradField] = "abc"

\* C7: when the gradient cell of a sample the generator resolves is no
\* number, correlation_row_generator and longitudinal_row_generator raise
\* when they are called: no generator is returned, the runner is never
\* reached and no test function is called, whatever the number of rows.
C7_NonNumericGradientFailsAtConstruction ==
    /\ (/\ script = "gradient_correlation"
        /\ pc # "start"
        /\ NonNumericGradient)
           => /\ pc = "correlation_row_generator"
              /\ raised = "ValueError"
              /\ data_generator.kind = "none"
              /\ calls = 0
    /\ (/\ script = "longitudinal_correlation"
        /\ pc \in {"longitudinal_row_generator",
                   "run_longitudinal_correlation_test",
                   "longitudinal_correlation_formatter"}
        /\ NonNumericGradient)
           => /\ pc = "longitudinal_row_generator"
              /\ raised = "ValueError"
              /\ data_generator.kind = "none"
              /\ calls = 0

C7_Witness ==
    /\ script = "gradient_correlation"
    /\ pc = "correlation_row_generator"
    /\ raised = "ValueError"
    /\ Len(bt.ObservationIds) = MaxRows
    /\ pmf[bt.SampleIds[2]][GradField] = "abc"
    /\ pmf[bt.SampleIds[1]][GradField] # "abc"

\* ================================================== claims: test runners
\* C8: a runner called with a test name that is no key of its table raises:
\* it never returns result lists, also for a slice sequence without rows.
C8_UnknownTestIsFatal ==
    (/\ pc \in {"run_group_significance_test", "run_correlation_test",
                "run_longitudinal_correlation_test"}
     /\ test = "bogus") => raised # ""

\* C10: for every feature and subject the runner records one coefficient and
\* one p-value; the p-value is kendalls_tau's own for 'kendall' and the
\* parametric significance of the coefficient and the subject's sample
\* count for the other tests, and these are the p-values fisher pools.
C10_SubjectPvalByTest ==
    (pc = "run_longitudinal_correlation_test" /\ raised = "") =>
        \A i \in 1..Len(bt.ObservationIds) :
            LET obs  == GroupSlice(bt.data[i], cat_sam_indices)
                grad == data_generator.l_arr
                p(g) == IF test = "kendall"
                        THEN TestOut(test, <<obs[g], grad[g]>>, "pval")
                        ELSE parametric_correlation_significance(
                                TestOut(test, <<obs[g], grad[g]>>, "stat"),
                                Len(obs[g]))
            IN  /\ Len(result.rs[i]) = Len(cat_sam_indices)
                /\ Len(result.pvals[i]) = Len(cat_sam_indices)
                /\ \A g \in 1..Len(cat_sam_indices) : result.pvals[i][g] = p(g)
                /\ result.combo_pvals[i] =
                      fisher([g \in 1..Len(cat_sam_indices) |-> p(g)])

\* ====================================================== claims: paired t
\* C6: paired_t_generator called with a 'before' list and an 'after' list of
\* different lengths raises when it is called.
C6_LengthMismatchFailsAtConstruction ==
    (pc = "paired_t_generator" /\ Len(s_before) # Len(s_after)) => raised # ""

\* ==================================================== claims: formatters
FormatterDone ==
    pc \in {"group_significance_output_formatter", "correlation_output_formatter",
            "longitudinal_correlation_formatter", "paired_t_output_formatter"}

\* C9: the table of every formatter has one header line and one line per
\* feature in the order of the matrix rows, every line has as many
\* tab-separated fields as the header, and the Taxonomy column is the last
\* one of the header and of every feature line when the matrix has row
\* annotations and is in neither when it has none.
C9_UniformTable ==
    FormatterDone =>
        LET hdr == Split(lines[1])
            R   == Len(bt.ObservationIds)
        IN  /\ Len(lines) = 1 + R
            /\ (Txt("Taxonomy") \in Range(hdr)) = (bt.ObservationMetadata # "None")
            /\ bt.ObservationMetadata # "None" => hdr[Len(hdr)] = Txt("Taxonomy")
            /\ \A i \in 1..R :
                  LET cells == Split(lines[i + 1])
                      tax   == biom_taxonomy_formatter(RowMetadata(bt, i))
                  IN  /\ Len(cells) = Len(hdr)
                      /\ cells[1] = Txt(bt.ObservationIds[i])
                      /\ (tax \in Range(cells)) = (bt.ObservationMetadata # "None")
                      /\ bt.ObservationMetadata # "None" => cells[Len(cells)] = tax

C9_Witness ==
    /\ pc = "longitudinal_correlation_formatter"
    /\ Len(bt.ObservationIds) = MaxRows
    /\ bt.ObservationMetadata # "None"
    /\ Len(cat_sam_groups) = 2

\* ==================================================== claims: rank sorter
\* the key C5 gives a line: nan and text that is no number count as +inf
ClaimedKey(line, i) ==
    LET v == CellFloat(Split(line)[i + 1])
    IN  IF v.f \in {"nan", "ValueError"} THEN Inf ELSE v

\* where a line of the input is in a list
PlaceIn(ls, line) == CHOOSE n \in 1..Len(ls) : ls[n] = line

\* C5: for every table whose lines have the chosen column, sort_by_pval
\* returns the header first and unchanged, then the other lines in ascending
\* order of the column as a float, nan and unparseable cells counting as
\* +infinity without an error, lines with equal keys in their input order.
C5_SortedWithUnparseableLast ==
    (/\ pc = "sort_by_pval"
     /\ lines # <<>>
     /\ \A n \in 1..Len(lines) : ind + 1 <= Len(Split(lines[n])))
    => /\ raised = ""
       /\ Len(result.lines) = Len(lines)
       /\ result.lines[1] = lines[1]
       /\ Range(result.lines) = Range(lines)
       /\ \A m, n \in 2..Len(lines) :
             m < n =>
                /\ KeyLE(ClaimedKey(result.lines[m], ind),
                         ClaimedKey(result.lines[n], ind))
                /\ KeyLE(ClaimedKey(result.lines[n], ind),
                         ClaimedKey(result.lines[m], ind))
                   => PlaceIn(lines, result.lines[m]) < PlaceIn(lines, result.lines[n])


\* C11: sort_by_pval is idempotent.  For every table whose chosen column
\* parses as a float (nan included) in every line after the header, so that
\* the first call returns, the second call on its result with the same
\* column index returns too and returns the list it was given.
C11_SortByPvalIdempotent ==
    (script = "sort" /\ pc = "sort_by_pval_again")
        => (raised = "" /\ result.lines = result.arg)

\* a table of three lines after the header that the first call reordered,
\* with a nan cell and two lines of equal key, sorted twice
C11_Witness ==
    /\ script = "sort" /\ pc = "sort_by_pval_again" /\ raised = ""
    /\ Len(lines) = 4 /\ ind = 2
    /\ result.arg # lines
    /\ \E n \in 2..4 : CellFloat(Split(lines[n])[ind + 1]) = NaN
    /\ \E n, m \in 2..4 : n # m /\ SortKey(lines[n], ind) = SortKey(lines[m], ind)


\* the slices of a longitudinal generator, as its consumer receives them
LongitudinalYielded ==
    script = "longitudinal_correlation" /\ data_generator.kind = "longitudinal"

\* the abundances of a subject's samples in a row, in the subject's sample order
AbundanceOf(row, hsid) == Take(row, Lookup(cat_sam_indices, hsid))

\* the gradient values of a subject's samples, in the subject's sample order
GradientOf(hsid) ==
    LET sids == Lookup(cat_sam_groups, hsid)
    IN  [j \in 1..Len(sids) |-> ParseFloat(pmf[sids[j]][GradField])]

\* the g-th name of the 'Individual Order' cell of a line
IndividualOrderName(line, g) == Split(line)[8][2 * g - 1].s

\* C12: every slice of longitudinal_row_generator pairs subjects
\* consistently: the g-th abundance array and the g-th gradient array hold
\* the samples of one subject, and once the table is written that subject is
\* the g-th name of the row's 'Individual Order' cell.
C12_SubjectsPairedConsistently ==
    LongitudinalYielded =>
        \A r \in 1..Len(data_generator.data), g \in 1..Len(data_generator.idx) :
            \E hsid \in KeySet(cat_sam_groups) :
                /\ GroupSlice(data_generator.data[r], data_generator.idx)[g]
                       = AbundanceOf(data_generator.data[r], hsid)
                /\ data_generator.l_arr[g] = GradientOf(hsid)
                /\ (pc = "longitudinal_correlation_formatter")
                       => IndividualOrderName(lines[r + 1], g) = hsid

=============================================================================
